---- MODULE Spec2Model ----
(***************************************************************************)
(* Model of lm_eval/models/gpt3.py: the result extractor get_result, the   *)
(* completion caller oa_completion and the two request loops of GPT3LM     *)
(* (_loglikelihood_tokens and greedy_until).                               *)
(*                                                                         *)
(* Python values are modelled as follows.  A list is a sequence; a str is  *)
(* a sequence of characters (small naturals); a dict is the sequence of    *)
(* its <<key, value>> items in insertion order; a tuple of named parts (a   *)
(* request) is a record.  A cache_key of None is 0, a response of None is  *)
(* NoResponse.  Log-probabilities are integers (fixed point).  A Python    *)
(* position i (0-based) of a list s is s[i + 1] here.                      *)
(***************************************************************************)
EXTENDS Integers, Sequences, FiniteSets, TLC

VARIABLES
    api_fails,       \* API requests that have failed so far
    \* the frame of the running call of oa_completion
    oa_pc,           \* "idle", "entry", "dask", "loop", "returned", "raised"
    oa_kwargs,       \* kwargs
    oa_backoff_time, \* backoff_time
    oa_slept,        \* the time.sleep(backoff_time) calls made, in order
    oa_errors,       \* OpenAIErrors the except clause has caught
    oa_sub,          \* per prompt: the delayed sub-call's state
    oa_r,            \* r: per prompt, what the sub-call returned
    oa_ob,           \* ob
    oa_ret,          \* ret
    oa_exc,          \* the exception that left the call ("None": none)
    oa_answered,     \* per prompt: the API requests for it answered during the call
    \* GPT3LM._loglikelihood_tokens
    ll_pc,           \* "idle", "start", "for", "try", "wait", "zip", "done", "raised"
    ll_requests,     \* requests
    ll_reord,        \* reord
    ll_chunks,       \* list(utils.chunks(reord.get_reordered(), REQ_CHUNK_SIZE))
    ll_ci,           \* position of the loop in ll_chunks
    ll_inps,         \* inps
    ll_ctxlens,      \* ctxlens
    ll_response,     \* response
    ll_res,          \* res
    ll_partial,      \* the cache_hook.add_partial calls made, in order
    ll_out,          \* the returned list
    ll_pauses,       \* the time.sleep(1) calls made
    \* GPT3LM.greedy_until
    gu_pc,           \* "idle", "start", "for", "done", "raised"
    gu_requests,     \* requests
    gu_reord,        \* reord
    gu_chunks,       \* list(sameuntil_chunks(reord.get_reordered(), REQ_CHUNK_SIZE))
    gu_res,          \* res
    gu_out,          \* the returned list
    gu_exc,          \* the exception that left the call ("None": none)
    \* get_result called on its own
    gr_response,     \* the argument response
    gr_ctxlen,       \* the argument ctxlen
    gr_pc,           \* "idle", "call" before the call, "done" after it
    gr_out,          \* what the call produced
    \* the truncation of one request in _loglikelihood_tokens (lines 152-154)
    tr_pc,           \* "idle", "call" before it, "done" after it
    tr_request,      \* (cache_key, context_enc, continuation_enc)
    tr_inp,          \* inp
    tr_ctxlen,       \* ctxlen
    \* sameuntil_chunks called on its own
    su_pc,           \* "idle", "call", "done"
    su_xs,           \* xs
    su_size,         \* size
    su_out,          \* the (chunk, until) pairs yielded, in order
    \* the stop-sequence loop of greedy_until (lines 241-245) on its own
    st_pc,           \* "idle", "call", "done"
    st_text,         \* resp['text']
    st_until,        \* until
    st_s,            \* s
    \* the request greedy_until builds for one context (lines 218-228)
    gen_pc,          \* "idle", "call", "done"
    gen_model,       \* the class of self: "GPT3LM" or "GooseAILM"
    gen_context_enc, \* context_enc
    gen_inp,         \* inp
    gen_max_tokens   \* max_tokens

oa_vars == <<oa_pc, oa_kwargs, oa_backoff_time, oa_slept, oa_errors, oa_sub, oa_r,
             oa_ob, oa_ret, oa_exc, oa_answered>>

ll_vars == <<ll_pc, ll_requests, ll_reord, ll_chunks, ll_ci, ll_inps, ll_ctxlens,
             ll_response, ll_res, ll_partial, ll_out, ll_pauses>>

gu_vars == <<gu_pc, gu_requests, gu_reord, gu_chunks, gu_res, gu_out, gu_exc>>

gr_vars == <<gr_pc, gr_response, gr_ctxlen, gr_out>>

tr_vars == <<tr_pc, tr_request, tr_inp, tr_ctxlen>>

su_vars == <<su_pc, su_xs, su_size, su_out>>

st_vars == <<st_pc, st_text, st_until, st_s>>

gen_vars == <<gen_pc, gen_model, gen_context_enc, gen_inp, gen_max_tokens>>

\* the parts of the two request loops that are followed on their own
fn_vars == <<tr_vars, su_vars, st_vars, gen_vars>>

vars == <<api_fails, oa_vars, ll_vars, gu_vars, gr_vars, fn_vars>>

GRIdle ==
    /\ gr_pc = "idle"
    /\ gr_response = [logprobs |-> [tokens |-> <<>>, token_logprobs |-> <<>>,
                                    top_logprobs |-> <<>>]]
    /\ gr_ctxlen = 0
    /\ gr_out = [raised |-> FALSE]

TRIdle ==
    /\ tr_pc = "idle"
    /\ tr_request = [cache_key |-> 0, context_enc |-> <<>>, continuation_enc |-> <<>>]
    /\ tr_inp = <<>>
    /\ tr_ctxlen = 0

SUIdle ==
    /\ su_pc = "idle"
    /\ su_xs = <<>>
    /\ su_size = 1
    /\ su_out = <<>>

STIdle ==
    /\ st_pc = "idle"
    /\ st_text = <<>>
    /\ st_until = <<>>
    /\ st_s = <<>>

GenIdle ==
    /\ gen_pc = "idle"
    /\ gen_model = "GPT3LM"
    /\ gen_context_enc = <<>>
    /\ gen_inp = <<>>
    /\ gen_max_tokens = 0

FnIdle == TRIdle /\ SUIdle /\ STIdle /\ GenIdle

-----------------------------------------------------------------------------
(* Python list primitives *)

Max2(a, b) == IF a >= b THEN a ELSE b
Min2(a, b) == IF a <= b THEN a ELSE b

\* s[:-1]
DropLast(s) == SubSeq(s, 1, Len(s) - 1)

\* s[c:]  (a negative c counts from the end, clamped at the start)
SliceFrom(s, c) ==
    LET start == IF c >= 0 THEN Min2(c, Len(s)) ELSE Max2(Len(s) + c, 0)
    IN  SubSeq(s, start + 1, Len(s))

\* s[-k:] for k >= 1
LastK(s, k) == SubSeq(s, Max2(Len(s) - k, 0) + 1, Len(s))

\* s[i] is defined (no IndexError)
IndexOk(s, i) == /\ i < Len(s)
                 /\ i >= 0 - Len(s)

\* s[i]  (a negative i counts from the end)
PyIndex(s, i) == IF i >= 0 THEN s[i + 1] ELSE s[Len(s) + i + 1]

RECURSIVE SumSeq(_)
\* sum(s)
SumSeq(s) == IF s = <<>> THEN 0 ELSE s[1] + SumSeq(Tail(s))

-----------------------------------------------------------------------------
(* get_result *)

RECURSIVE ArgMaxFrom(_, _, _)
\* max(d.keys(), key=lambda x: d[x]) over the items from position k on, with
\* best the item that is the maximum so far: the first key of maximal value
ArgMaxFrom(d, k, best) ==
    IF k > Len(d) THEN best[1]
    ELSE ArgMaxFrom(d, k + 1, IF d[k][2] > best[2] THEN d[k] ELSE best)

\* top_token = max(top_tokens.keys(), key=lambda x: top_tokens[x])
TopToken(top_tokens) == ArgMaxFrom(top_tokens, 2, top_tokens[1])

\* the upper end of the greedy loop's range
GreedyRangeEndOffByOne(response) == Len(response.logprobs.tokens)
GreedyRangeEnd(response) == Len(DropLast(response.logprobs.tokens))

RECURSIVE GreedyLoop(_, _)
\* the for loop of get_result from index i on: "raise" on an IndexError,
\* FALSE at the first mismatch (break), TRUE when the range is exhausted
GreedyLoop(response, i) ==
    IF i >= GreedyRangeEnd(response) THEN "True"
    ELSE IF ~IndexOk(DropLast(response.logprobs.tokens), i) THEN "IndexError"
    ELSE LET token      == PyIndex(DropLast(response.logprobs.tokens), i)
             top_tokens == PyIndex(DropLast(response.logprobs.top_logprobs), i)
             top_token  == TopToken(top_tokens)
         IN  IF top_token # token THEN "False"
             ELSE GreedyLoop(response, i + 1)

\* continuation_logprobs = sum(logprobs[ctxlen:]) with logprobs = token_logprobs[:-1]
ContinuationLogprobsWholeList(response, ctxlen) ==
    SumSeq(SliceFrom(response.logprobs.token_logprobs, ctxlen))
ContinuationLogprobs(response, ctxlen) ==
    SumSeq(SliceFrom(DropLast(response.logprobs.token_logprobs), ctxlen))

\* get_result(response, ctxlen): the returned pair, or the exception raised
get_result(response, ctxlen) ==
    LET continuation_logprobs == ContinuationLogprobs(response, ctxlen)
        loop == GreedyLoop(response, ctxlen)
    IN  IF loop = "IndexError"
        THEN [raised |-> TRUE, exc |-> "IndexError"]
        ELSE [raised |-> FALSE,
              continuation_logprobs |-> continuation_logprobs,
              is_greedy |-> (loop = "True")]

\* the value of gr_out before get_result has been called
NoResult == [raised |-> FALSE]

-----------------------------------------------------------------------------
(* The tokenizer behind tok_encode / tok_decode.  The vocabulary has three  *)
(* tokens: 1 is "a", 2 is "b", 3 is "ab" (characters: a = 1, b = 2).        *)

TokenText(t) == IF t = 3 THEN <<1, 2>> ELSE <<t>>

RECURSIVE tok_decode(_)
\* self.tokenizer.decode(tokens): the concatenated texts of the tokens
tok_decode(tokens) ==
    IF tokens = <<>> THEN <<>>
    ELSE TokenText(tokens[1]) \o tok_decode(Tail(tokens))

RECURSIVE tok_encode(_)
\* self.tokenizer.encode(string, add_special_tokens=False): longest match first
tok_encode(string) ==
    IF string = <<>> THEN <<>>
    ELSE IF Len(string) >= 2 /\ string[1] = 1 /\ string[2] = 2
         THEN <<3>> \o tok_encode(SubSeq(string, 3, Len(string)))
         ELSE <<string[1]>> \o tok_encode(Tail(string))

-----------------------------------------------------------------------------
(* The completion API as the calls of _loglikelihood_tokens see it          *)
(* (echo=True, max_tokens=1, logprobs=10): one choice per prompt, in prompt *)
(* order; a choice echoes the prompt's tokens and adds one generated token. *)

GenTok == 1

\* the alternatives reported at a position holding token t: the model ranks
\* t first, except that it never ranks token 2 first
TopLogprobsOf(t) == IF t = 2 THEN <<<<1, -1>>, <<2, -2>>>>
                    ELSE <<<<t, -1>>, <<2, -2>>>>

ApiChoice(prompt) ==
    LET toks == tok_encode(prompt) \o <<GenTok>>
    IN  [text |-> prompt \o TokenText(GenTok),
         logprobs |-> [tokens |-> toks,
                       token_logprobs |-> [i \in 1..Len(toks) |-> 0 - (toks[i] + i)],
                       top_logprobs |-> [i \in 1..Len(toks) |-> TopLogprobsOf(toks[i])]]]

\* what openai.Completion.create(**kwargs) returns when it succeeds
ApiResponse(kwargs) ==
    [choices |-> [i \in 1..Len(kwargs.prompt) |-> ApiChoice(kwargs.prompt[i])]]

\* the value of a response variable that holds no response (None)
NoResponse == [choices |-> <<>>]

-----------------------------------------------------------------------------
(* utils.Reorderer and utils.chunks *)

RECURSIVE LexLess(_, _)
\* a < b for two Python tuples (or strings) of integers
LexLess(a, b) ==
    IF b = <<>> THEN FALSE
    ELSE IF a = <<>> THEN TRUE
    ELSE IF a[1] # b[1] THEN a[1] < b[1]
    ELSE LexLess(Tail(a), Tail(b))

\* k1 < k2 for two sort keys (number, tuple)
KeyLess(k1, k2) == \/ k1[1] < k2[1]
                   \/ k1[1] = k2[1] /\ LexLess(k1[2], k2[2])

\* the elements of a set of numbers as a list, ascending
Ascending(S) ==
    [k \in 1..Cardinality(S) |->
        CHOOSE x \in S : Cardinality({ y \in S : y < x }) = k - 1]

\* group(arr, fn), given keys[i] = fn(arr[i]): one group per key, in the order
\* in which the keys first occur; a group is the positions of the requests
\* with that key (in input order) and the first request with that key
Group(arr, keys) ==
    LET firsts == Ascending({ i \in 1..Len(arr) :
                                 \A j \in 1..(i - 1) : keys[j] # keys[i] })
    IN  [g \in 1..Len(firsts) |->
            [inds |-> Ascending({ i \in 1..Len(arr) : keys[i] = keys[firsts[g]] }),
             x    |-> arr[firsts[g]]]]

\* arr.sort(key=...): the groups by their key, ascending (the keys of two
\* groups differ)
SortGroups(groups, keys) ==
    LET before(g) == Cardinality({ h \in 1..Len(groups) :
                        KeyLess(keys[groups[h].inds[1]], keys[groups[g].inds[1]]) })
    IN  [k \in 1..Len(groups) |->
            groups[CHOOSE g \in 1..Len(groups) : before(g) = k - 1]]

\* Reorderer(arr, fn), given the sorted groups: self.size and self.arr
Reorderer(arr, sorted) == [size |-> Len(arr), arr |-> sorted]

\* reord.get_reordered()
get_reordered(reord) == [k \in 1..Len(reord.arr) |-> reord.arr[k].x]

\* the position in reord.arr of the last group zip reaches that holds i (0: none)
CoveredBy(reord, newarr, i) ==
    LET ks == { k \in 1..Min2(Len(reord.arr), Len(newarr)) :
                    \E j \in 1..Len(reord.arr[k].inds) : reord.arr[k].inds[j] = i }
    IN  IF ks = {} THEN 0 ELSE CHOOSE k \in ks : \A m \in ks : m <= k

\* reord.get_original(newarr): the list in input order, or the AssertionError
\* of "assert all(cov)"
get_original(reord, newarr) ==
    IF \E i \in 1..reord.size : CoveredBy(reord, newarr, i) = 0
    THEN [raised |-> TRUE, value |-> <<>>]
    ELSE [raised |-> FALSE,
          value |-> [i \in 1..reord.size |-> newarr[CoveredBy(reord, newarr, i)]]]

\* list(utils.chunks(iter, n)): consecutive slices of n elements, the last one
\* shorter when n does not divide the length
chunks(iter, n) ==
    [k \in 1..((Len(iter) + n - 1) \div n) |->
        SubSeq(iter, (k - 1) * n + 1, Min2(k * n, Len(iter)))]

-----------------------------------------------------------------------------
(* oa_completion *)

MaxFails == 1      \* API requests that may fail in one run
NumWorkers == 2    \* sub-calls the task-graph library runs at the same time

\* backoff_time, a rational number of seconds
InitialBackoff == [num |-> 3, den |-> 1]

\* the exceptions that can leave the "except openai.error.OpenAIError" handler:
\* os.environ["QUESTION_RESULT_PATH"] raises KeyError when the variable is not
\* set, and otherwise traceback.print_exc(file=<a str>) raises AttributeError
\* (a str has no write()); time.sleep and the backoff update come after it
HandlerExceptions == {"KeyError", "AttributeError"}

\* the exceptions that can leave an oa_completion frame whose request raised
\* an exception of the given kind
EscapingExceptions(kind) ==
    IF kind = "OpenAIError" THEN HandlerExceptions ELSE {"Exception"}

\* what openai.Completion.create may raise: a provider error or anything else
ErrorKinds == {"OpenAIError", "Other"}

\* the state of the frame of a call oa_completion(**kwargs) at its first line
OaEnter(kwargs) ==
    /\ oa_pc' = "entry"
    /\ oa_kwargs' = kwargs
    /\ oa_backoff_time' = InitialBackoff
    /\ oa_slept' = <<>>
    /\ oa_errors' = 0
    /\ oa_sub' = <<>>
    /\ oa_r' = <<>>
    /\ oa_ob' = NoResponse
    /\ oa_ret' = NoResponse
    /\ oa_exc' = "None"
    /\ oa_answered' = [i \in 1..Len(kwargs.prompt) |-> 0]

\* line 50, condition true (the prompt is a list in every call made by this
\* file): one delayed single-prompt call per prompt
OaBuildDelayed ==
    /\ oa_pc = "entry"
    /\ Len(oa_kwargs.prompt) > 1
    /\ oa_pc' = "dask"
    /\ oa_sub' = [i \in 1..Len(oa_kwargs.prompt) |-> "delayed"]
    /\ oa_r' = [i \in 1..Len(oa_kwargs.prompt) |-> NoResponse]
    /\ UNCHANGED <<oa_kwargs, oa_backoff_time, oa_slept, oa_errors, oa_ob, oa_ret,
                   oa_exc, oa_answered, api_fails, ll_vars, gr_vars, gu_vars, fn_vars>>

\* line 50, condition false: straight to the request loop
OaSkipDask ==
    /\ oa_pc = "entry"
    /\ ~(Len(oa_kwargs.prompt) > 1)
    /\ oa_pc' = "loop"
    /\ UNCHANGED <<oa_kwargs, oa_backoff_time, oa_slept, oa_errors, oa_sub, oa_r,
                   oa_ob, oa_ret, oa_exc, oa_answered, api_fails, ll_vars,
                   gr_vars, gu_vars, fn_vars>>

\* dask.compute starts the next delayed sub-call on a free worker
SubStart(i) ==
    /\ oa_pc = "dask"
    /\ oa_sub[i] = "delayed"
    /\ \A j \in 1..(i - 1) : oa_sub[j] # "delayed"
    /\ Cardinality({ j \in 1..Len(oa_sub) : oa_sub[j] = "running" }) < NumWorkers
    /\ oa_sub' = [oa_sub EXCEPT ![i] = "running"]
    /\ UNCHANGED <<oa_pc, oa_kwargs, oa_backoff_time, oa_slept, oa_errors, oa_r,
                   oa_ob, oa_ret, oa_exc, oa_answered, api_fails, ll_vars,
                   gr_vars, gu_vars, fn_vars>>

\* the sub-call for prompt i: len(prompt) is 1, so it does not split again; its
\* request succeeds and it returns the response
SubReturn(i) ==
    /\ oa_pc = "dask"
    /\ oa_sub[i] = "running"
    /\ LET k == [oa_kwargs EXCEPT !.prompt = <<oa_kwargs.prompt[i]>>]
       IN  oa_r' = [oa_r EXCEPT ![i] = ApiResponse(k)]
    /\ oa_answered' = [oa_answered EXCEPT ![i] = @ + 1]
    /\ oa_sub' = [oa_sub EXCEPT ![i] = "done"]
    /\ UNCHANGED <<oa_pc, oa_kwargs, oa_backoff_time, oa_slept, oa_errors, oa_ob,
                   oa_ret, oa_exc, api_fails, ll_vars, gr_vars, gu_vars, fn_vars>>

\* the sub-call for prompt i: its request raises, the exception leaves the
\* sub-call and dask.compute re-raises it in the caller (line 57)
SubRaise(i) ==
    /\ oa_pc = "dask"
    /\ oa_sub[i] = "running"
    /\ api_fails < MaxFails
    /\ api_fails' = api_fails + 1
    /\ \E kind \in ErrorKinds : oa_exc' \in EscapingExceptions(kind)
    /\ oa_pc' = "raised"
    /\ UNCHANGED <<oa_kwargs, oa_backoff_time, oa_slept, oa_errors, oa_sub, oa_r,
                   oa_ob, oa_ret, oa_answered, ll_vars, gr_vars, gu_vars, fn_vars>>

\* dask.compute returns; ob.choices = [x.choices[0] for x in r]; control goes
\* on to the request loop (ob is not returned)
OaComputeDone ==
    /\ oa_pc = "dask"
    /\ \A i \in 1..Len(oa_sub) : oa_sub[i] = "done"
    /\ oa_ob' = [choices |-> [i \in 1..Len(oa_r) |-> oa_r[i].choices[1]]]
    /\ oa_pc' = "loop"
    /\ UNCHANGED <<oa_kwargs, oa_backoff_time, oa_slept, oa_errors, oa_sub, oa_r,
                   oa_ret, oa_exc, oa_answered, api_fails, ll_vars, gr_vars, gu_vars, fn_vars>>

\* lines 63-65: the request with the whole kwargs succeeds; return ret
OaCreateReturns ==
    /\ oa_pc = "loop"
    /\ oa_ret' = ApiResponse(oa_kwargs)
    /\ oa_answered' = [i \in 1..Len(oa_answered) |-> oa_answered[i] + 1]
    /\ oa_pc' = "returned"
    /\ UNCHANGED <<oa_kwargs, oa_backoff_time, oa_slept, oa_errors, oa_sub, oa_r,
                   oa_ob, oa_exc, api_fails, ll_vars, gr_vars, gu_vars, fn_vars>>

\* lines 66-69: the request raises an OpenAIError; the handler prints the
\* traceback and then raises itself, before time.sleep(backoff_time)
OaCreateRaisesOpenAIError ==
    /\ oa_pc = "loop"
    /\ api_fails < MaxFails
    /\ api_fails' = api_fails + 1
    /\ oa_errors' = oa_errors + 1
    /\ oa_exc' \in EscapingExceptions("OpenAIError")
    /\ oa_pc' = "raised"
    /\ UNCHANGED <<oa_kwargs, oa_backoff_time, oa_slept, oa_sub, oa_r, oa_ob, oa_ret,
                   oa_answered, ll_vars, gr_vars, gu_vars, fn_vars>>

\* line 63: the request raises something that is no OpenAIError
OaCreateRaisesOther ==
    /\ oa_pc = "loop"
    /\ api_fails < MaxFails
    /\ api_fails' = api_fails + 1
    /\ oa_exc' \in EscapingExceptions("Other")
    /\ oa_pc' = "raised"
    /\ UNCHANGED <<oa_kwargs, oa_backoff_time, oa_slept, oa_errors, oa_sub, oa_r,
                   oa_ob, oa_ret, oa_answered, ll_vars, gr_vars, gu_vars, fn_vars>>

\* the frame of oa_completion is gone (its caller has taken the outcome)
OaLeave ==
    /\ oa_pc' = "idle"
    /\ oa_kwargs' = [prompt |-> <<>>]
    /\ oa_backoff_time' = InitialBackoff
    /\ oa_slept' = <<>>
    /\ oa_errors' = 0
    /\ oa_sub' = <<>>
    /\ oa_r' = <<>>
    /\ oa_ob' = NoResponse
    /\ oa_ret' = NoResponse
    /\ oa_exc' = "None"
    /\ oa_answered' = <<>>

NextOA ==
    \/ OaBuildDelayed
    \/ OaSkipDask
    \/ \E i \in 1..Len(oa_sub) : SubStart(i)
    \/ \E i \in 1..Len(oa_sub) : SubReturn(i)
    \/ \E i \in 1..Len(oa_sub) : SubRaise(i)
    \/ OaComputeDone
    \/ OaCreateReturns
    \/ OaCreateRaisesOpenAIError
    \/ OaCreateRaisesOther

\* no call of oa_completion has been made
OaIdle ==
    /\ oa_pc = "idle"
    /\ oa_kwargs = [prompt |-> <<>>]
    /\ oa_backoff_time = InitialBackoff
    /\ oa_slept = <<>>
    /\ oa_errors = 0
    /\ oa_sub = <<>>
    /\ oa_r = <<>>
    /\ oa_ob = NoResponse
    /\ oa_ret = NoResponse
    /\ oa_exc = "None"
    /\ oa_answered = <<>>
    /\ api_fails = 0

-----------------------------------------------------------------------------
(* GPT3LM._loglikelihood_tokens *)

REQ_CHUNK_SIZE_plus_one == 20 + 1
REQ_CHUNK_SIZE == 20

max_length == 2048

\* _collate(x): the sort key of a request
_collate_ascending(x) ==
    LET toks == x.context_enc \o x.continuation_enc
    IN  <<Len(toks), toks>>
_collate(x) ==
    LET toks == x.context_enc \o x.continuation_enc
    IN  <<0 - Len(toks), toks>>

\* line 152: inp
ChunkInpTokens(x) == LastK(x.context_enc \o x.continuation_enc, max_length + 1)

\* lines 152, 157-158: the prompt of a request (pass_strings is asserted)
ChunkInp(x) == tok_decode(ChunkInpTokens(x))

\* line 154
ChunkCtxlen(x) ==
    Len(x.context_enc)
        - Max2(0, Len(x.context_enc) + Len(x.continuation_enc) - (max_length + 1))

\* the (continuation_logprobs, is_greedy) tuple get_result returns
AnswerOf(result) == <<result.continuation_logprobs, result.is_greedy>>

\* the choice zip pairs with the j-th request of the chunk
ZipChoiceReversed(response, j) == response.choices[Len(response.choices) + 1 - j]
ZipChoice(response, j) == response.choices[j]

\* every answer is put into the partial cache
ShouldCacheAlways(x) == TRUE

\* line 184: if cache_key is not None
ShouldCache(x) == x.cache_key # 0

RECURSIVE CollectFrom(_, _, _, _, _, _)
\* lines 178-185 from the j-th triple of zip(response.choices, ctxlens, chunk)
\* on: the result list and the partial-cache entries afterwards, and whether
\* get_result raised on the way
CollectFrom(response, ctxlens, chunk, j, res, partial) ==
    IF j > Min2(Len(response.choices), Min2(Len(ctxlens), Len(chunk)))
    THEN [raised |-> FALSE, res |-> res, partial |-> partial]
    ELSE LET result == get_result(ZipChoice(response, j), ctxlens[j])
         IN  IF result.raised
             THEN [raised |-> TRUE, res |-> res, partial |-> partial]
             ELSE CollectFrom(response, ctxlens, chunk, j + 1,
                              Append(res, AnswerOf(result)),
                              IF ShouldCache(chunk[j])
                              THEN Append(partial, <<"loglikelihood", chunk[j].cache_key,
                                                     AnswerOf(result)>>)
                              ELSE partial)

\* lines 136-147: res = [], the Reorderer and the list of chunks
LLStart ==
    /\ ll_pc = "start"
    /\ ll_res' = <<>>
    /\ \E keys \in {[i \in 1..Len(ll_requests) |-> _collate(ll_requests[i])]} :
       \E groups \in {Group(ll_requests, keys)} :
       \E sorted \in {SortGroups(groups, keys)} :
       \E reord \in {Reorderer(ll_requests, sorted)} :
           /\ ll_reord' = reord
           /\ ll_chunks' = chunks(get_reordered(reord), REQ_CHUNK_SIZE)
    /\ ll_ci' = 1
    /\ ll_pc' = "for"
    /\ UNCHANGED <<ll_requests, ll_inps, ll_ctxlens, ll_response, ll_partial, ll_out,
                   ll_pauses, oa_vars, api_fails, gr_vars, gu_vars, fn_vars>>

\* lines 147-161: the next chunk; its prompts and context lengths
LLBuildChunk ==
    /\ ll_pc = "for"
    /\ ll_ci <= Len(ll_chunks)
    /\ LET chunk == ll_chunks[ll_ci]
       IN  /\ ll_inps' = [j \in 1..Len(chunk) |-> ChunkInp(chunk[j])]
           /\ ll_ctxlens' = [j \in 1..Len(chunk) |-> ChunkCtxlen(chunk[j])]
    /\ ll_response' = NoResponse
    /\ ll_pc' = "try"
    /\ UNCHANGED <<ll_requests, ll_reord, ll_chunks, ll_ci, ll_res, ll_partial, ll_out,
                   ll_pauses, oa_vars, api_fails, gr_vars, gu_vars, fn_vars>>

\* lines 163-170: the call of oa_completion
LLCall ==
    /\ ll_pc = "try"
    /\ OaEnter([engine |-> "engine", prompt |-> ll_inps, echo |-> TRUE,
                max_tokens |-> 1, logprobs |-> 10])
    /\ ll_pc' = "wait"
    /\ UNCHANGED <<ll_requests, ll_reord, ll_chunks, ll_ci, ll_inps, ll_ctxlens,
                   ll_response, ll_res, ll_partial, ll_out, ll_pauses, api_fails, gr_vars, gu_vars, fn_vars>>

\* lines 164, 171: oa_completion returned; response is set, break
LLBreak ==
    /\ ll_pc = "wait"
    /\ oa_pc = "returned"
    /\ ll_response' = oa_ret
    /\ OaLeave
    /\ ll_pc' = "zip"
    /\ UNCHANGED <<ll_requests, ll_reord, ll_chunks, ll_ci, ll_inps, ll_ctxlens,
                   ll_res, ll_partial, ll_out, ll_pauses, api_fails, gr_vars, gu_vars, fn_vars>>

\* an except clause that catches provider errors only
LLExceptProviderErrorsOnly ==
    /\ ll_pc = "wait"
    /\ oa_pc = "raised"
    /\ OaLeave
    /\ ll_pc' = "raised"
    /\ UNCHANGED <<ll_requests, ll_reord, ll_chunks, ll_ci, ll_inps, ll_ctxlens,
                   ll_response, ll_res, ll_partial, ll_out, ll_pauses, api_fails, gr_vars, gu_vars, fn_vars>>

\* an except clause that gives the chunk up and goes on to the next one
LLExceptSkipChunk ==
    /\ ll_pc = "wait"
    /\ oa_pc = "raised"
    /\ OaLeave
    /\ ll_pauses' = ll_pauses + 1
    /\ ll_ci' = ll_ci + 1
    /\ ll_pc' = "for"
    /\ UNCHANGED <<ll_requests, ll_reord, ll_chunks, ll_inps, ll_ctxlens,
                   ll_response, ll_res, ll_partial, ll_out, api_fails, gr_vars, gu_vars, fn_vars>>

\* lines 172-176: oa_completion raised; except Exception: print, sleep(1),
\* continue
LLExcept ==
    /\ ll_pc = "wait"
    /\ oa_pc = "raised"
    /\ OaLeave
    /\ ll_pauses' = ll_pauses + 1
    /\ ll_pc' = "try"
    /\ UNCHANGED <<ll_requests, ll_reord, ll_chunks, ll_ci, ll_inps, ll_ctxlens,
                   ll_response, ll_res, ll_partial, ll_out, api_fails, gr_vars, gu_vars, fn_vars>>

\* lines 178-185: the answers of the chunk, appended and partially cached
LLCollect ==
    /\ ll_pc = "zip"
    /\ LET c == CollectFrom(ll_response, ll_ctxlens, ll_chunks[ll_ci], 1, ll_res,
                            ll_partial)
       IN  /\ ll_res' = c.res
           /\ ll_partial' = c.partial
           /\ ll_pc' = IF c.raised THEN "raised" ELSE "for"
    /\ ll_ci' = ll_ci + 1
    /\ UNCHANGED <<ll_requests, ll_reord, ll_chunks, ll_inps, ll_ctxlens, ll_response,
                   ll_out, ll_pauses, oa_vars, api_fails, gr_vars, gu_vars, fn_vars>>

\* line 187: return reord.get_original(res)
LLReturn ==
    /\ ll_pc = "for"
    /\ ll_ci > Len(ll_chunks)
    /\ LET o == get_original(ll_reord, ll_res)
       IN  /\ ll_out' = o.value
           /\ ll_pc' = IF o.raised THEN "raised" ELSE "done"
    /\ UNCHANGED <<ll_requests, ll_reord, ll_chunks, ll_ci, ll_inps, ll_ctxlens,
                   ll_response, ll_res, ll_partial, ll_pauses, oa_vars, api_fails, gr_vars, gu_vars, fn_vars>>

NextLL ==
    \/ LLStart
    \/ LLBuildChunk
    \/ LLCall
    \/ LLBreak
    \/ LLExcept
    \/ LLCollect
    \/ LLReturn

\* _loglikelihood_tokens has not been called
LLIdle ==
    /\ ll_pc = "idle"
    /\ ll_requests = <<>>
    /\ ll_reord = [size |-> 0, arr |-> <<>>]
    /\ ll_chunks = <<>>
    /\ ll_ci = 0
    /\ ll_inps = <<>>
    /\ ll_ctxlens = <<>>
    /\ ll_response = NoResponse
    /\ ll_res = <<>>
    /\ ll_partial = <<>>
    /\ ll_out = <<>>
    /\ ll_pauses = 0

-----------------------------------------------------------------------------
(* GPT3LM.greedy_until *)

\* greedy_until has not been called
GUIdle ==
    /\ gu_pc = "idle"
    /\ gu_requests = <<>>
    /\ gu_reord = [size |-> 0, arr |-> <<>>]
    /\ gu_chunks = <<>>
    /\ gu_res = <<>>
    /\ gu_out = <<>>
    /\ gu_exc = "None"

\* _collate(x) of greedy_until: the sort key of a request
gu_collate(x) == <<Len(tok_encode(x.context)), x.context>>

\* a chunk is only given up once it has more than size requests
ChunkEndsLate(ret, size, x, lastuntil) ==
    Len(ret) > size \/ x.until # lastuntil

\* line 204: len(ret) >= size or x[1] != lastuntil
ChunkEnds(ret, size, x, lastuntil) ==
    Len(ret) >= size \/ x.until # lastuntil

RECURSIVE SameUntilFrom(_, _, _, _, _, _)
\* sameuntil_chunks(xs, size) from the i-th element of xs on, with ret and
\* lastuntil as they are and out the (chunk, until) pairs yielded so far
SameUntilFrom(xs, size, i, ret, lastuntil, out) ==
    IF i > Len(xs)
    THEN IF ret # <<>> THEN Append(out, [chunk |-> ret, until |-> lastuntil]) ELSE out
    ELSE IF ChunkEnds(ret, size, xs[i], lastuntil)
         THEN SameUntilFrom(xs, size, i + 1, <<xs[i]>>, xs[i].until,
                            Append(out, [chunk |-> ret, until |-> lastuntil]))
         ELSE SameUntilFrom(xs, size, i + 1, Append(ret, xs[i]), lastuntil, out)

\* list(sameuntil_chunks(xs, size)) for a non-empty xs
sameuntil_chunks(xs, size) == SameUntilFrom(xs, size, 1, <<>>, xs[1].until, <<>>)

\* lines 190-191: if not requests: return []
GUReturnEmpty ==
    /\ gu_pc = "start"
    /\ gu_requests = <<>>
    /\ gu_out' = <<>>
    /\ gu_pc' = "done"
    /\ UNCHANGED <<gu_requests, gu_reord, gu_chunks, gu_res, gu_exc,
                   api_fails, oa_vars, ll_vars, gr_vars, fn_vars>>

\* lines 192-214: res = [], the Reorderer and the list of chunks
GUStart ==
    /\ gu_pc = "start"
    /\ gu_requests # <<>>
    /\ gu_res' = <<>>
    /\ \E keys \in {[i \in 1..Len(gu_requests) |-> gu_collate(gu_requests[i])]} :
       \E groups \in {Group(gu_requests, keys)} :
       \E sorted \in {SortGroups(groups, keys)} :
       \E reord \in {Reorderer(gu_requests, sorted)} :
           /\ gu_reord' = reord
           /\ gu_chunks' = sameuntil_chunks(get_reordered(reord), REQ_CHUNK_SIZE)
    /\ gu_pc' = "for"
    /\ UNCHANGED <<gu_requests, gu_out, gu_exc, api_fails, oa_vars,
                   ll_vars, gr_vars, fn_vars>>

\* lines 215-217, the first context of the first chunk:
\* self.tok_encode(context, max_length=self.max_length, truncation=False) is a
\* call of tok_encode(self, string), which takes no such keyword arguments, so
\* it raises TypeError; nothing catches it
GUEncodeContext ==
    /\ gu_pc = "for"
    /\ gu_chunks # <<>>
    /\ gu_exc' = "TypeError"
    /\ gu_pc' = "raised"
    /\ UNCHANGED <<gu_requests, gu_reord, gu_chunks, gu_res, gu_out,
                   api_fails, oa_vars, ll_vars, gr_vars, fn_vars>>

NextGU ==
    \/ GUReturnEmpty
    \/ GUStart
    \/ GUEncodeContext

MaxGUReqs == 3     \* longest request list given to greedy_until

GURequest(context, until) == [context |-> context, until |-> until]

\* contexts "a", "ab", "ba" with the stop strings ["b"] or ["a", "bb"]
GURequestPool ==
    { GURequest(<<1>>, << <<2>> >>),
      GURequest(<<1, 2>>, << <<2>> >>),
      GURequest(<<1, 2>>, << <<1>>, <<2, 2>> >>),
      GURequest(<<2, 1>>, << <<1>>, <<2, 2>> >>) }

InitGU ==
    /\ OaIdle
    /\ LLIdle
    /\ gu_pc = "start"
    /\ gu_requests \in UNION { [1..n -> GURequestPool] : n \in 0..MaxGUReqs }
    /\ gu_reord = [size |-> 0, arr |-> <<>>]
    /\ gu_chunks = <<>>
    /\ gu_res = <<>>
    /\ gu_out = <<>>
    /\ gu_exc = "None"
    /\ gr_pc = "idle"
    /\ gr_response = [logprobs |-> [tokens |-> <<>>, token_logprobs |-> <<>>,
                                    top_logprobs |-> <<>>]]
    /\ gr_ctxlen = 0
    /\ gr_out = NoResult
    /\ FnIdle

SpecGU == InitGU /\ [][NextGU]_vars

\* C2 (as claimed): greedy_until returns [] without a call of oa_completion
\* for an empty request list, and for a non-empty one it does not raise but
\* returns one string per request.
C2_GreedyUntilReturns ==
    /\ gu_pc # "raised"
    /\ (gu_pc = "done") =>
           /\ Len(gu_out) = Len(gu_requests)
           /\ oa_pc = "idle"

-----------------------------------------------------------------------------
(* Inputs of _loglikelihood_tokens *)

MaxReqs == 2       \* longest request list drawn freely from RequestPool

Request(key, ctx, cont) ==
    [cache_key |-> key, context_enc |-> ctx, continuation_enc |-> cont]

\* requests of two and three tokens; two of them have the same tokens, split
\* differently into context and continuation; cache_key 0 is None
RequestPool ==
    { Request(1, <<2>>, <<1>>),
      Request(2, <<2>>, <<1, 1>>),
      Request(0, <<2, 1>>, <<1>>),
      Request(0, <<1>>, <<2>>),
      Request(3, <<3>>, <<2, 2>>) }

RECURSIVE Numeral(_)
\* the digits 1..3 of n >= 1 in bijective base 3: a different tuple for each n
Numeral(n) ==
    IF n = 0 THEN <<>>
    ELSE LET d == ((n - 1) % 3) + 1
         IN  Append(Numeral((n - d) \div 3), d)

\* a list long enough for two chunks
LongLen == REQ_CHUNK_SIZE + 2

\* the i-th request of the long lists: tokens of two or three digits, the
\* first of them the context
LongRequest(i) ==
    LET toks == Numeral(i + 3)
    IN  Request(IF i % 2 = 1 THEN i ELSE 0, <<toks[1]>>, Tail(toks))

\* the long lists: shortest request first, and a shuffled order
LongLists ==
    { [i \in 1..LongLen |-> LongRequest(i)],
      [i \in 1..LongLen |-> LongRequest(((i * 7) % LongLen) + 1)] }

RequestLists ==
    LongLists \cup UNION { [1..n -> RequestPool] : n \in 0..MaxReqs }

Init ==
    /\ OaIdle
    /\ ll_requests \in RequestLists
    /\ ll_pc = "start"
    /\ ll_reord = [size |-> 0, arr |-> <<>>]
    /\ ll_chunks = <<>>
    /\ ll_ci = 0
    /\ ll_inps = <<>>
    /\ ll_ctxlens = <<>>
    /\ ll_response = NoResponse
    /\ ll_res = <<>>
    /\ ll_partial = <<>>
    /\ ll_out = <<>>
    /\ ll_pauses = 0
    /\ GUIdle
    /\ gr_pc = "idle"
    /\ gr_response = [logprobs |-> [tokens |-> <<>>, token_logprobs |-> <<>>,
                                    top_logprobs |-> <<>>]]
    /\ gr_ctxlen = 0
    /\ gr_out = NoResult
    /\ FnIdle

Next == NextLL \/ NextOA

Spec == Init /\ [][Next]_vars

\* the program always takes its next step: a request is answered or raises,
\* and a sleep ends
FairSpec == Spec /\ WF_vars(Next)

-----------------------------------------------------------------------------
(* Properties of oa_completion *)

\* the k-th wait of an exponential backoff that starts at 3 seconds and
\* grows by the factor 1.5
BackoffWait(k) == [num |-> 3 * 3^(k - 1), den |-> 2^(k - 1)]

\* C3 (as claimed): within one call of oa_completion, once the except clause
\* has caught k >= 1 provider errors the call has slept 3 * 1.5^(j-1) seconds
\* after the j-th of them, for j = 1..k, and is issuing the request again with
\* the same parameters (it has returned by then at most).
C3_BackoffAndRetry ==
    (oa_errors >= 1)
        => /\ oa_pc \in {"loop", "returned"}
           /\ Len(oa_slept) = oa_errors
           /\ \A j \in 1..Len(oa_slept) : oa_slept[j] = BackoffWait(j)

\* C4 (as claimed): a call of oa_completion never ends by raising after the
\* completion request raised a provider error.
C4_NoErrorSurfaced ==
    ~(oa_pc = "raised" /\ oa_exc \in HandlerExceptions)

\* C8 (as claimed): a call with more than one prompt returns the first choices
\* of the single-prompt sub-calls, in prompt order, and each prompt has been
\* requested successfully exactly once.
C8_DelegatedOnce ==
    (oa_pc = "returned" /\ Len(oa_kwargs.prompt) > 1)
        => /\ Len(oa_ret.choices) = Len(oa_kwargs.prompt)
           /\ \A i \in 1..Len(oa_kwargs.prompt) :
                  /\ oa_ret.choices[i] = oa_r[i].choices[1]
                  /\ oa_answered[i] = 1

-----------------------------------------------------------------------------
(* Properties of GPT3LM._loglikelihood_tokens *)

\* len(context_enc + continuation_enc)
TokLen(x) == Len(x.context_enc \o x.continuation_enc)

\* the first request of the list with the tokens of request i
FirstWithTokensOf(i) ==
    CHOOSE j \in 1..i :
        /\ _collate(ll_requests[j]) = _collate(ll_requests[i])
        /\ \A m \in 1..(j - 1) : _collate(ll_requests[m]) # _collate(ll_requests[i])

NonIncreasing(xs) ==
    \A j \in 1..(Len(xs) - 1) : TokLen(xs[j]) >= TokLen(xs[j + 1])

\* C9: the prompts of every call of oa_completion are those of the current
\* chunk, in the chunk's order; inside a chunk the token count
\* len(context_enc + continuation_enc) never increases, nor does it from the
\* last request of a chunk to the first request of the next chunk.
C9_DescendingLength ==
    (ll_pc \in {"try", "wait", "zip"})
        => /\ ll_inps = [j \in 1..Len(ll_chunks[ll_ci]) |-> ChunkInp(ll_chunks[ll_ci][j])]
           /\ (ll_pc = "wait" /\ oa_pc # "idle") => oa_kwargs.prompt = ll_inps
           /\ NonIncreasing(ll_chunks[ll_ci])
           /\ ll_ci > 1 =>
                  TokLen(ll_chunks[ll_ci - 1][Len(ll_chunks[ll_ci - 1])])
                      >= TokLen(ll_chunks[ll_ci][1])

\* C9 witness: the second chunk is in flight, with shorter requests than the
\* first chunk began with, for requests that were given shortest first
C9_Witness ==
    /\ ll_pc = "wait"
    /\ oa_pc = "loop"
    /\ ll_ci = 2
    /\ TokLen(ll_requests[1]) < TokLen(ll_requests[Len(ll_requests)])
    /\ TokLen(ll_chunks[1][1]) > TokLen(ll_chunks[2][Len(ll_chunks[2])])

RECURSIVE Flatten(_)
\* the concatenation of a list of lists
Flatten(xss) == IF xss = <<>> THEN <<>> ELSE xss[1] \o Flatten(Tail(xss))

\* C10: every call of oa_completion carries between 1 and 20 prompts; the
\* chunks are non-empty, of at most 20 requests, and together they are the
\* reordered requests, each once and in order; with N reordered requests
\* there are ceil(N / 20) chunks and all of them are processed at the end.
C10_ChunksPartition ==
    /\ (oa_pc # "idle") =>
           (1 <= Len(oa_kwargs.prompt) /\ Len(oa_kwargs.prompt) <= 20)
    /\ (ll_pc \notin {"idle", "start"}) =>
           /\ \A k \in 1..Len(ll_chunks) :
                  1 <= Len(ll_chunks[k]) /\ Len(ll_chunks[k]) <= 20
           /\ Flatten(ll_chunks) = get_reordered(ll_reord)
           /\ Len(ll_chunks) = (Len(ll_reord.arr) + 19) \div 20
    /\ (ll_pc = "done") => (ll_ci - 1 = (Len(ll_reord.arr) + 19) \div 20)

\* C10 witness: 22 reordered requests were processed as a chunk of 20 and a
\* chunk of 2
C10_Witness ==
    /\ ll_pc = "done"
    /\ Len(ll_reord.arr) = 22
    /\ Len(ll_chunks) = 2
    /\ Len(ll_chunks[1]) = 20
    /\ Len(ll_chunks[2]) = 2
    /\ ll_ci = 3

ChunksBefore(k) == Flatten(SubSeq(ll_chunks, 1, k - 1))

\* C11: an attempt that raised leaves res and the partial cache as they were
\* and leads to a new attempt for the same chunk with the same prompt list;
\* res and the partial cache only change while a successful response is being
\* processed; the loop only moves to the next chunk from there; and whenever a
\* request for chunk k is about to be sent or in flight, res holds exactly the
\* results of the chunks before k.
C11_FailedAttemptFrame ==
    /\ [][(ll_pc = "wait" /\ oa_pc = "raised") =>
             (/\ ll_res' = ll_res
              /\ ll_partial' = ll_partial
              /\ ll_ci' = ll_ci
              /\ ll_inps' = ll_inps
              /\ ll_pc' = "try")]_vars
    /\ [][(ll_pc = "try" /\ ll_pc' = "wait") =>
             (/\ oa_kwargs'.prompt = ll_inps
              /\ ll_inps = [j \in 1..Len(ll_chunks[ll_ci]) |->
                                ChunkInp(ll_chunks[ll_ci][j])])]_vars
    /\ [][(ll_res' # ll_res \/ ll_partial' # ll_partial) =>
             (ll_pc = "zip" /\ Len(ll_response.choices) = Len(ll_chunks[ll_ci]))]_vars
    /\ [][(ll_ci >= 1 /\ ll_ci' # ll_ci) =>
             (ll_pc = "zip" /\ ll_ci' = ll_ci + 1
              /\ Len(ll_res') = Len(ChunksBefore(ll_ci')))]_vars
    /\ []((ll_pc \in {"try", "wait"}) => (Len(ll_res) = Len(ChunksBefore(ll_ci))))

\* C11 witness: an attempt for the second chunk has raised, with the results
\* of the first chunk in res
C11_Witness ==
    /\ ll_pc = "wait"
    /\ oa_pc = "raised"
    /\ ll_ci = 2
    /\ Len(ll_res) = REQ_CHUNK_SIZE
    /\ Len(ll_chunks[2]) = 2

RECURSIVE PartialCallsFor(_, _, _)
\* the add_partial calls owed for the first n requests of reqs with the
\* answers res, in order
PartialCallsFor(reqs, res, n) ==
    IF n = 0 THEN <<>>
    ELSE LET before == PartialCallsFor(reqs, res, n - 1)
         IN  IF reqs[n].cache_key # 0
             THEN Append(before, <<"loglikelihood", reqs[n].cache_key, res[n]>>)
             ELSE before

\* C15: the add_partial calls made so far are, in order, one call
\* ("loglikelihood", cache_key, answer) for each request with a cache_key that
\* has its answer in res, with that very answer, and none for a request whose
\* cache_key is None; a call is only made while the response of a successful
\* API call for the request's chunk is being processed, so all calls made
\* belong to chunks before the one in progress.
C15_PartialCaching ==
    /\ []((ll_pc # "start") =>
            /\ Len(ll_res) <= Len(Flatten(ll_chunks))
            /\ ll_partial = PartialCallsFor(Flatten(ll_chunks), ll_res, Len(ll_res))
            /\ Len(ll_res) = Len(ChunksBefore(ll_ci)))
    /\ [][(ll_partial' # ll_partial) =>
             (/\ ll_pc = "zip"
              /\ ll_response = ApiResponse([prompt |-> ll_inps])
              /\ Len(ll_response.choices) = Len(ll_chunks[ll_ci]))]_vars

\* C15 witness: a whole long list is done: the eleven requests with a
\* cache_key have one call each, the eleven without have none
C15_Witness ==
    /\ ll_pc = "done"
    /\ Len(ll_res) = LongLen
    /\ Len(ll_partial) = LongLen \div 2
    /\ \E j \in 1..Len(ll_res) : Flatten(ll_chunks)[j].cache_key = 0
    /\ ll_pauses >= 1

-----------------------------------------------------------------------------
(* The truncation of one request (lines 152-154 of _loglikelihood_tokens) *)

\* lengths 1..TrSmall are tried
TrSmall == 3

\* and the lengths at most TrAround away from max_length + 1
TrAround == 2

TrLengths ==
    (1..TrSmall) \cup ((max_length + 1 - TrAround)..(max_length + 1 + TrAround))

\* token ids that tell the place of a token: the i-th context token is i, the
\* j-th continuation token is FirstContinuationToken + j
FirstContinuationToken == 10000

TrRequest(n, m) ==
    [cache_key |-> 0,
     context_enc |-> [i \in 1..n |-> i],
     continuation_enc |-> [j \in 1..m |-> FirstContinuationToken + j]]

InitTR ==
    /\ OaIdle
    /\ LLIdle
    /\ GUIdle
    /\ GRIdle
    /\ SUIdle
    /\ STIdle
    /\ GenIdle
    /\ tr_pc = "call"
    /\ tr_request \in { TrRequest(n, m) : n \in TrLengths, m \in TrLengths }
    /\ tr_inp = <<>>
    /\ tr_ctxlen = 0

\* lines 152-154 for one request
TruncateRequest ==
    /\ tr_pc = "call"
    /\ tr_pc' = "done"
    /\ tr_inp' = ChunkInpTokens(tr_request)
    /\ tr_ctxlen' = ChunkCtxlen(tr_request)
    /\ UNCHANGED <<tr_request, api_fails, oa_vars, ll_vars, gu_vars, gr_vars,
                   su_vars, st_vars, gen_vars>>

NextTR == TruncateRequest

SpecTR == InitTR /\ [][NextTR]_vars

\* C12 (as claimed): the prompt is the last (at most) max_length + 1 tokens of
\* context_enc + continuation_enc, and ctxlen is non-negative and equals
\* len(prompt tokens) - len(continuation_enc), whatever the two lengths are.
C12_CtxlenIsContextLeft ==
    (tr_pc = "done") =>
        /\ tr_inp = LastK(tr_request.context_enc \o tr_request.continuation_enc,
                          max_length + 1)
        /\ Len(tr_inp) <= max_length + 1
        /\ tr_ctxlen >= 0
        /\ tr_ctxlen = Len(tr_inp) - Len(tr_request.continuation_enc)

-----------------------------------------------------------------------------
(* sameuntil_chunks on its own *)

\* lists of 1..MaxXs requests are chunked
MaxXs == 4

\* with a size of 1..MaxSize
MaxSize == 3

InitSU ==
    /\ OaIdle
    /\ LLIdle
    /\ GUIdle
    /\ GRIdle
    /\ TRIdle
    /\ STIdle
    /\ GenIdle
    /\ su_pc = "call"
    /\ su_xs \in UNION { [1..n -> GURequestPool] : n \in 1..MaxXs }
    /\ su_size \in 1..MaxSize
    /\ su_out = <<>>

\* list(sameuntil_chunks(xs, size))
CallSameUntilChunks ==
    /\ su_pc = "call"
    /\ su_pc' = "done"
    /\ su_out' = sameuntil_chunks(su_xs, su_size)
    /\ UNCHANGED <<su_xs, su_size, api_fails, oa_vars, ll_vars, gu_vars, gr_vars,
                   tr_vars, st_vars, gen_vars>>

NextSU == CallSameUntilChunks

SpecSU == InitSU /\ [][NextSU]_vars

\* C13: for a non-empty xs and size >= 1, every chunk sameuntil_chunks yields
\* is non-empty, has at most size requests, all of whose until is the until
\* yielded with the chunk, and the chunks concatenated in order are xs.
C13_SameUntilPartition ==
    (su_pc = "done") =>
        /\ \A k \in 1..Len(su_out) :
              /\ Len(su_out[k].chunk) >= 1
              /\ Len(su_out[k].chunk) <= su_size
              /\ \A j \in 1..Len(su_out[k].chunk) :
                    su_out[k].chunk[j].until = su_out[k].until
        /\ Flatten([k \in 1..Len(su_out) |-> su_out[k].chunk]) = su_xs

\* C13 witness: four requests are split once because the chunk is full and
\* once because until changes
C13_Witness ==
    /\ su_pc = "done"
    /\ su_size = 2
    /\ Len(su_xs) = 4
    /\ Len(su_out) = 3
    /\ Len(su_out[1].chunk) = 2
    /\ su_out[1].until = su_out[2].until
    /\ su_out[2].until # su_out[3].until

-----------------------------------------------------------------------------
(* The stop-sequence loop of greedy_until (lines 241-245) on its own *)

\* term occurs in s at position i (1-based)
OccursAt(s, term, i) ==
    /\ i >= 1
    /\ i + Len(term) - 1 <= Len(s)
    /\ SubSeq(s, i, i + Len(term) - 1) = term

Contains(s, term) == \E i \in 1..Len(s) : OccursAt(s, term, i)

\* the part of s before the last occurrence of term
SplitAtLast(s, term) ==
    IF Contains(s, term)
    THEN LET i == CHOOSE k \in 1..Len(s) :
                      /\ OccursAt(s, term, k)
                      /\ \A m \in (k + 1)..Len(s) : ~OccursAt(s, term, m)
         IN  SubSeq(s, 1, i - 1)
    ELSE s

\* line 245: s.split(term)[0] for a non-empty term, the part of s before the
\* first occurrence of term, or s when term does not occur
SplitFirst(s, term) ==
    IF Contains(s, term)
    THEN LET i == CHOOSE k \in 1..Len(s) :
                      /\ OccursAt(s, term, k)
                      /\ \A m \in 1..(k - 1) : ~OccursAt(s, term, m)
         IN  SubSeq(s, 1, i - 1)
    ELSE s

RECURSIVE StripFrom(_, _, _)
\* lines 244-245: the loop over until_ from its k-th term on
StripFrom(s, until, k) ==
    IF k > Len(until) THEN s
    ELSE StripFrom(SplitFirst(s, until[k]), until, k + 1)

\* response texts have at most MaxText characters
MaxText == 4

\* until has at most MaxStops stop sequences
MaxStops == 2

\* the texts of length n over the characters a and b
Texts(n) == [1..n -> {1, 2}]

\* the stop sequences tried: "a", "b", "aa", "ab", "ba", "bb"
StopStrings == Texts(1) \cup Texts(2)

InitST ==
    /\ OaIdle
    /\ LLIdle
    /\ GUIdle
    /\ GRIdle
    /\ TRIdle
    /\ SUIdle
    /\ GenIdle
    /\ st_pc = "call"
    /\ st_text \in UNION { Texts(n) : n \in 0..MaxText }
    /\ st_until \in UNION { [1..n -> StopStrings] : n \in 0..MaxStops }
    /\ st_s = <<>>

\* lines 242-245 for one choice of the response
StripStops ==
    /\ st_pc = "call"
    /\ st_pc' = "done"
    /\ st_s' = StripFrom(st_text, st_until, 1)
    /\ UNCHANGED <<st_text, st_until, api_fails, oa_vars, ll_vars, gu_vars, gr_vars,
                   tr_vars, su_vars, gen_vars>>

NextST == StripStops

SpecST == InitST /\ [][NextST]_vars

\* C14: the string recorded for a request is a prefix of the response text
\* and contains none of the stop sequences of until_, whatever their order and
\* overlap.
C14_StopsStripped ==
    (st_pc = "done") =>
        /\ Len(st_s) <= Len(st_text)
        /\ st_s = SubSeq(st_text, 1, Len(st_s))
        /\ \A k \in 1..Len(st_until) : ~Contains(st_s, st_until[k])

\* C14 witness: the text "babb" with until_ = ["bb", "a"]: the first stop
\* sequence leaves "ba", the second one cuts inside what the first left
C14_Witness ==
    /\ st_pc = "done"
    /\ st_text = <<2, 1, 2, 2>>
    /\ st_until = << <<2, 2>>, <<1>> >>
    /\ st_s = <<2>>

-----------------------------------------------------------------------------
(* The request greedy_until builds for one encoded context (lines 218-228) *)

\* lines 115-117: GPT3LM.max_gen_toks
max_gen_toks == 256

\* lines 276-279: GooseAILM.max_length
GooseAILM_max_length == 2022

\* lines 285-287: GooseAILM.max_gen_toks
GooseAILM_max_gen_toks == 64

\* self.max_length for an object of the class model
MaxLengthOf(model) ==
    IF model = "GooseAILM" THEN GooseAILM_max_length ELSE max_length

\* self.max_gen_toks for an object of the class model
MaxGenToksOf(model) ==
    IF model = "GooseAILM" THEN GooseAILM_max_gen_toks ELSE max_gen_toks

\* the context is cut to max_length tokens, with no room kept for generation
GenInpWholeLength(model, context_enc) ==
    LastK(context_enc, MaxLengthOf(model))

\* line 218: inp = context_enc[-(self.max_length - self.max_gen_toks):]
GenInp(model, context_enc) ==
    LastK(context_enc, MaxLengthOf(model) - MaxGenToksOf(model))

\* line 228: max_tokens=self.max_gen_toks
GenMaxTokens(model) == MaxGenToksOf(model)

\* contexts of 0..GenSmall tokens are tried
GenSmall == 10

\* and contexts at most GenAround tokens shorter or longer than
\* max_length - max_gen_toks
GenAround == 10

GenLengths(model) ==
    (0..GenSmall) \cup
    ((MaxLengthOf(model) - MaxGenToksOf(model) - GenAround)
        ..(MaxLengthOf(model) - MaxGenToksOf(model) + GenAround))

InitGen ==
    /\ OaIdle
    /\ LLIdle
    /\ GUIdle
    /\ GRIdle
    /\ TRIdle
    /\ SUIdle
    /\ STIdle
    /\ gen_pc = "call"
    /\ gen_model \in {"GPT3LM", "GooseAILM"}
    /\ gen_context_enc \in { [i \in 1..n |-> i] : n \in GenLengths(gen_model) }
    /\ gen_inp = <<>>
    /\ gen_max_tokens = 0

\* lines 218 and 228 for one encoded context
BuildGenRequest ==
    /\ gen_pc = "call"
    /\ gen_pc' = "done"
    /\ gen_inp' = GenInp(gen_model, gen_context_enc)
    /\ gen_max_tokens' = GenMaxTokens(gen_model)
    /\ UNCHANGED <<gen_model, gen_context_enc, api_fails, oa_vars, ll_vars, gu_vars,
                   gr_vars, tr_vars, su_vars, st_vars>>

NextGen == BuildGenRequest

SpecGen == InitGen /\ [][NextGen]_vars

\* C16: for GPT3LM (2048, 256) and GooseAILM (2022, 64) the prompt tokens are
\* the last min(len(context_enc), max_length - max_gen_toks) tokens of the
\* encoded context, max_tokens is max_gen_toks, and the two together are at
\* most max_length.
C16_GenerationBudget ==
    (gen_pc = "done") =>
        LET ml == IF gen_model = "GPT3LM" THEN 2048 ELSE 2022
            mg == IF gen_model = "GPT3LM" THEN 256 ELSE 64
            n == Len(gen_context_enc)
        IN  /\ gen_model \in {"GPT3LM", "GooseAILM"}
            /\ Len(gen_inp) = Min2(n, ml - mg)
            /\ \A i \in 1..Len(gen_inp) :
                  gen_inp[i] = gen_context_enc[n - Len(gen_inp) + i]
            /\ gen_max_tokens = mg
            /\ Len(gen_inp) + gen_max_tokens <= ml

\* C16 witness: a GooseAILM context longer than 2022 - 64 tokens is cut to
\* its last 1958 tokens
C16_Witness ==
    /\ gen_pc = "done"
    /\ gen_model = "GooseAILM"
    /\ Len(gen_context_enc) = 1958 + 3
    /\ Len(gen_inp) = 1958
    /\ gen_inp[1] = 4
    /\ gen_max_tokens = 64

-----------------------------------------------------------------------------
(* Inputs of get_result *)

MaxN == 3          \* longest response (number of tokens) given to get_result
MaxTok == 2        \* token ids of the responses are 1..MaxTok

\* top_logprobs entries: a clear winner either way, and a tie
TopDicts == { <<<<1, -1>>, <<2, -2>>>>,
              <<<<1, -2>>, <<2, -1>>>>,
              <<<<1, -1>>, <<2, -1>>>> }

Responses ==
    UNION { [logprobs : [tokens : [1..n -> 1..MaxTok],
                         token_logprobs : [1..n -> {-1, -2}],
                         top_logprobs : [1..n -> TopDicts]]] : n \in 0..MaxN }

CtxLens == (0 - (MaxN + 1))..(MaxN + 1)

InitGR == /\ gr_response \in Responses
          /\ gr_ctxlen \in CtxLens
          /\ gr_pc = "call"
          /\ gr_out = NoResult
          /\ OaIdle
          /\ LLIdle
          /\ GUIdle
          /\ FnIdle

\* the call get_result(response, ctxlen)
CallGetResult ==
    /\ gr_pc = "call"
    /\ gr_pc' = "done"
    /\ gr_out' = get_result(gr_response, gr_ctxlen)
    /\ UNCHANGED <<gr_response, gr_ctxlen, api_fails, oa_vars, ll_vars,
                   gu_vars, fn_vars>>

NextGR == CallGetResult

SpecGR == InitGR /\ [][NextGR]_vars

-----------------------------------------------------------------------------
(* Properties of get_result *)

\* number of tokens of the response given to get_result
GrN == Len(gr_response.logprobs.tokens)

\* k is the key of d with the highest log-probability (of several keys with
\* the highest value, the one max() meets first)
IsTopKey(d, k) ==
    \E j \in 1..Len(d) :
        /\ d[j][1] = k
        /\ \A m \in 1..Len(d) : d[m][2] <= d[j][2]
        /\ \A m \in 1..(j - 1) : d[m][2] < d[j][2]

\* the token at Python position i is the top-ranked prediction at i
GreedyAt(response, i) ==
    IsTopKey(response.logprobs.top_logprobs[i + 1], response.logprobs.tokens[i + 1])

C5_WitnessRegionOnly ==
    /\ gr_pc = "done"
    /\ gr_ctxlen = 1
    /\ GrN = 3
    /\ ~GreedyAt(gr_response, 0)
    /\ ~GreedyAt(gr_response, GrN - 1)
    /\ ~gr_out.raised
    /\ gr_out.is_greedy

RECURSIVE SumRange(_, _, _)
\* sum of s at the Python positions a..b
SumRange(s, a, b) == IF a > b THEN 0 ELSE s[a + 1] + SumRange(s, a + 1, b)

\* C6: for 0 <= ctxlen <= n-1 the returned continuation log-probability is the
\* sum of token_logprobs at exactly the positions ctxlen .. n-2.
C6_ContinuationRegion ==
    (gr_pc = "done" /\ 0 <= gr_ctxlen /\ gr_ctxlen <= GrN - 1)
        => /\ ~gr_out.raised
           /\ gr_out.continuation_logprobs =
                  SumRange(gr_response.logprobs.token_logprobs, gr_ctxlen, GrN - 2)

\* C6 witness: one context position, one continuation position and the
\* generated token, each with its own log-probability
C6_Witness ==
    /\ gr_pc = "done"
    /\ gr_ctxlen = 1
    /\ GrN = 3
    /\ ~gr_out.raised
    /\ gr_response.logprobs.token_logprobs = <<-1, -2, -1>>
    /\ gr_out.continuation_logprobs = -2

====
